---- MODULE Spec2Model ----
(***************************************************************************)
(* Reed-Solomon codec over GF(2^8): finitefield.py, polynomial.py and      *)
(* reedsolomon.py.  Python lists are modelled as sequences; a list index i *)
(* (0-based) is the sequence index i + 1.  A raised exception is modelled  *)
(* as a record whose kind names the exception.                             *)
(***************************************************************************)
EXTENDS Integers, Sequences, FiniteSets, TLC

VARIABLES
    exp, log,   \* gf.exp and gf.log, the tables of the process-wide GF256 instance
    pc,         \* position of the session: which call has been made last
    nsym,       \* number of parity symbols passed to the codec
    msg,        \* message handed to rs_encode_msg
    cw,         \* outcome of rs_encode_msg
    word,       \* the word handed to rs_decode_msg (possibly corrupted)
    positions,  \* list indices corrupted so far (simulate_errors)
    result,     \* outcome of rs_decode_msg
    located,    \* err_pos of rs_decode_msg: the outcome of its call of rs_find_errors
    arith,      \* TRUE once a call went past validate_params
    x, y,       \* field elements given to gf.mul / gf.div
    prod, quot, \* gf.mul(x, y) and gf.div(prod, y)
    dividend, divisor, \* polynomials given to poly_div
    qr          \* outcome of poly_div

vars == <<exp, log, pc, nsym, msg, cw, word, positions, result, located, arith,
          x, y, prod, quot, dividend, divisor, qr>>

codecVars == <<nsym, msg, cw, word, positions, result, located, arith>>
fieldVars == <<x, y, prod, quot>>
tableVars == <<exp, log>>
polyVars  == <<dividend, divisor, qr>>

None == "none"

-----------------------------------------------------------------------------
(* Integer helpers: Python's ^ on non-negative ints, max, slices.          *)

RECURSIVE XorRec(_, _)
XorRec(a, b) ==
    IF a = 0 THEN b
    ELSE IF b = 0 THEN a
    ELSE (((a % 2) + (b % 2)) % 2) + 2 * XorRec(a \div 2, b \div 2)

Xor(a, b) == XorRec(a, b)

Max(a, b) == IF a >= b THEN a ELSE b
Min(a, b) == IF a <= b THEN a ELSE b

\* p[lo:hi] of a Python list, lo and hi already clamped to 0..len(p)
Slice(p, lo, hi) == IF hi <= lo THEN << >> ELSE SubSeq(p, lo + 1, hi)

\* Python's index normalisation for a slice bound (negative counts from the end)
SliceBound(len, i) == IF i < 0 THEN Max(len + i, 0) ELSE Min(i, len)

\* a function over 1..n as a list value
List(f) == f \o << >>

Zeros(n) == List([i \in 1..n |-> 0])

\* max(s) of a non-empty list
SeqMax(s) == CHOOSE m \in {s[k] : k \in 1..Len(s)} : \A k \in 1..Len(s) : s[k] <= m

\* for i in range(first, last + 1): s = Body(s, i)
\* The iterations are split in halves, and the state after the first half is bound
\* through a singleton set so that it is a value before the second half starts:
\* this only keeps the evaluation shallow, the order of the iterations is the loop's.
RECURSIVE Loop(_, _, _, _)
Loop(Body(_, _), s, first, last) ==
    IF first > last THEN s
    ELSE IF first = last THEN Body(s, first)
    ELSE LET mid == (first + last) \div 2
         IN  CHOOSE r \in {Loop(Body, h, mid + 1, last) :
                              h \in {Loop(Body, s, first, mid)}} : TRUE

-----------------------------------------------------------------------------
(* finitefield.py                                                          *)

prim == 285

\* _init_tables, first loop: exp[i] for i in 0..254
\* _init_tables, first loop: the list exp[0..i] and the running x after step i
ExpStep(st, i) ==
    LET sh == 2 * st.x
    IN  [exp |-> Append(st.exp, st.x),
         x   |-> IF (sh \div 256) % 2 = 1 THEN XorRec(sh, prim) ELSE sh]

ExpBase == Loop(ExpStep, [exp |-> << >>, x |-> 1], 0, 254).exp

\* the exp table after _init_tables, 512 entries: entries 255..511 repeat exp[i - 255]
ExpTable == ExpBase \o ExpBase \o SubSeq(ExpBase, 1, 2)

\* the last i in 0..254 with exp[i] = v (the assignment log[x] = i that survives)
LogOf(v) ==
    CHOOSE i \in 0..254 : ExpBase[i + 1] = v /\ \A j \in (i + 1)..254 : ExpBase[j + 1] # v

\* the log table after _init_tables, for 1..255; log[0] stays 0
LogTable == List([v \in 1..255 |-> LogOf(v)])

\* GF256.__init__: the state of the module-level instance gf
InitTables == exp = ExpTable /\ log = LogTable

gf_exp(i) == exp[i + 1]

gf_log(v) == IF v = 0 THEN 0 ELSE log[v]

ZeroDivisionError == "ZeroDivisionError"

gf_mul(a, b) ==
    IF a = 0 \/ b = 0 THEN 0 ELSE gf_exp(gf_log(a) + gf_log(b))

\* gf.div with the logarithms added instead of subtracted
gf_div_wrong_sign(a, b) ==
    IF b = 0 THEN ZeroDivisionError
    ELSE IF a = 0 THEN 0
    ELSE gf_exp((gf_log(a) + gf_log(b)) % 255)

gf_div(a, b) ==
    IF b = 0 THEN ZeroDivisionError
    ELSE IF a = 0 THEN 0
    ELSE gf_exp((gf_log(a) - gf_log(b)) % 255)

gf_pow(a, power) ==
    IF a = 0 THEN 0 ELSE gf_exp((gf_log(a) * power) % 255)

-----------------------------------------------------------------------------
(* polynomial.py: coefficient lists, highest degree first                  *)

poly_trim(p) ==
    IF \A k \in 1..Len(p) : p[k] = 0 THEN <<0>>
    ELSE LET i == CHOOSE k \in 1..Len(p) : p[k] # 0 /\ \A j \in 1..(k - 1) : p[j] = 0
         IN  SubSeq(p, i, Len(p))

\* coefficient k (1-based) of p right-aligned in a list of length n
Aligned(p, n, k) == IF k - (n - Len(p)) >= 1 THEN p[k - (n - Len(p))] ELSE 0

poly_add(p, q) ==
    poly_trim(List([k \in 1..Max(Len(p), Len(q)) |->
                      Xor(Aligned(p, Max(Len(p), Len(q)), k),
                          Aligned(q, Max(Len(p), Len(q)), k))]))

\* r[k] after both loops of poly_mul: the XOR of gf.mul(p[i], q[k - i]) over the
\* indices i with 0 <= i < len(p) and 0 <= k - i < len(q)
MulCoef(p, q, k) ==
    LET Body(acc, i) == Xor(acc, gf_mul(p[i + 1], q[k - i + 1]))
    IN  Loop(Body, 0, Max(0, k - Len(q) + 1), Min(k, Len(p) - 1))

poly_mul(p, q) ==
    poly_trim(List([k \in 1..(Len(p) + Len(q) - 1) |-> MulCoef(p, q, k - 1)]))

poly_scale(p, c) == poly_trim(List([k \in 1..Len(p) |-> gf_mul(p[k], c)]))

\* Horner: y = gf.mul(y, x) ^ coef over the coefficients
poly_eval(p, v) ==
    LET Body(acc, k) == Xor(gf_mul(acc, v), p[k])
    IN  Loop(Body, 0, 1, Len(p))

\* the body of poly_div's outer loop at index i (0-based) on buffer out
DivStep(out, dv, i) ==
    LET coef   == out[i + 1]
        factor == IF dv[1] # 1 THEN gf_div(coef, dv[1]) ELSE coef
    IN  IF coef = 0 THEN out
        ELSE List([k \in 1..Len(out) |->
                     IF k = i + 1 THEN 0
                     ELSE IF k - 1 - i >= 1 /\ k - 1 - i < Len(dv)
                          THEN Xor(out[k], gf_mul(dv[k - i], factor))
                          ELSE out[k]])

\* poly_div's return statements, on the buffer out left by the loop
DivResult(out, sep) ==
    IF sep = 0
    THEN [kind |-> "ok", quotient |-> poly_trim(out), remainder |-> <<0>>]
    ELSE [kind |-> "ok",
          quotient  |-> poly_trim(Slice(out, 0, SliceBound(Len(out), sep))),
          remainder |-> poly_trim(Slice(out, SliceBound(Len(out), sep), Len(out)))]

\* poly_div once the divisor is trimmed
DivBy(p, dv) ==
    LET Body(buf, i) == DivStep(buf, dv, i)
    IN  IF dv = <<0>> THEN [kind |-> ZeroDivisionError]
        ELSE DivResult(Loop(Body, p, 0, Len(p) - Len(dv)), -(Len(dv) - 1))

poly_div(p, d) == DivBy(p, poly_trim(d))

-----------------------------------------------------------------------------
(* reedsolomon.py                                                          *)

ErrNsym    == "nsym must be between 1 and 254"
ErrLength  == "message length + nsym must be <= 255"
ErrLocate  == "Could not locate the correct number of errors"
ErrCorrect == "Could not correct message"
ErrForney  == "Forney denominator is zero while computing error magnitude"

ValueError(text) == [kind |-> "ValueError", msg |-> text]

\* validate_params without the upper limits on nsym and on the length
validate_params_no_upper(k_len, n) ==
    IF ~(0 < n) THEN ErrNsym
    ELSE "ok"

\* "ok" when validate_params returns, else the text of the ValueError it raises
validate_params(k_len, n) ==
    IF ~(0 < n /\ n < 255) THEN ErrNsym
    ELSE IF k_len + n > 255 THEN ErrLength
    ELSE "ok"

rs_generator_poly(n) ==
    LET Body(g, i) == poly_mul(g, <<1, gf_exp(i + 1)>>)
    IN  poly_trim(Loop(Body, <<1>>, 0, n - 1))

rs_encode_msg(m, n) ==
    IF validate_params(Len(m), n) # "ok" THEN ValueError(validate_params(Len(m), n))
    ELSE [kind  |-> "ok",
          value |-> m \o poly_div(m \o Zeros(n), rs_generator_poly(n)).remainder]

rs_calc_syndromes(c, n) == List([i \in 1..n |-> poly_eval(c, gf_exp(i))])

Reverse(p) == List([k \in 1..Len(p) |-> p[Len(p) + 1 - k]])

to_asc(p) == Reverse(poly_trim(p))

to_desc(p) == poly_trim(Reverse(p))

\* discrepancy loop of berlekamp_massey: d ^= gf.mul(C[i], S[n - i]) for i in 1..L
Discrepancy(S, C, n, L) ==
    LET Body(d, i) == IF i < Len(C) THEN Xor(d, gf_mul(C[i + 1], S[n - i + 1])) ELSE d
    IN  Loop(Body, S[n + 1], 1, L)

\* shift = [0] * m + [gf.mul(coef, bi) for bi in B], with coef = gf.div(d, b)
BMShift(st, d) ==
    Zeros(st.m) \o List([k \in 1..Len(st.B) |-> gf_mul(gf_div(d, st.b), st.B[k])])

\* C extended with zeros to len(shift), then C[i] ^= shift[i]
BMXorInto(C, shift) ==
    List([k \in 1..Max(Len(C), Len(shift)) |->
            IF k > Len(shift) THEN C[k]
            ELSE Xor(IF k <= Len(C) THEN C[k] ELSE 0, shift[k])])

\* the branch on 2 * L <= n, with T the copy of C taken before the update
BMUpdate(st, n, d, Cnew) ==
    IF 2 * st.L <= n
    THEN [C |-> Cnew, B |-> st.C, L |-> n + 1 - st.L, m |-> 1, b |-> d]
    ELSE [st EXCEPT !.C = Cnew, !.m = st.m + 1]

\* the branch on the discrepancy d
BMBranch(st, n, d) ==
    IF d = 0 THEN [st EXCEPT !.m = st.m + 1]
    ELSE BMUpdate(st, n, d, BMXorInto(st.C, BMShift(st, d)))

\* one iteration of berlekamp_massey's main loop; st holds C, B, L, m, b
BMStep(S, st, n) == BMBranch(st, n, Discrepancy(S, st.C, n, st.L))

berlekamp_massey(S) ==
    LET Body(st, n) == BMStep(S, st, n)
        init == [C |-> <<1>>, B |-> <<1>>, L |-> 0, m |-> 1, b |-> 1]
    IN  to_desc(Loop(Body, init, 0, Len(S) - 1).C)

\* alpha^{-i} as the code computes it
AlphaInv(i) == gf_exp((255 - i) % 255)

\* val after the inner loop of find_error_positions (sigma ascending)
ChienEval(sigma, point) ==
    LET Body(st, j) == [val   |-> Xor(st.val, gf_mul(sigma[j], st.power)),
                        power |-> gf_mul(st.power, point)]
    IN  Loop(Body, [val |-> 0, power |-> 1], 1, Len(sigma)).val

\* the loop of find_error_positions over the candidate positions (sigma ascending)
ChienSearch(sigma, nmess) ==
    LET Body(errs, i) == IF ChienEval(sigma, AlphaInv(i)) = 0 THEN Append(errs, i) ELSE errs
    IN  Loop(Body, << >>, 0, nmess - 1)

find_error_positions(error_locator, nmess) == ChienSearch(to_asc(error_locator), nmess)

\* num after the loop over the syndromes
ForneyNum(S, Xi) ==
    LET Body(st, j) == [num    |-> Xor(st.num, gf_mul(S[j], st.Xi_pow)),
                        Xi_pow |-> gf_mul(st.Xi_pow, Xi)]
    IN  Loop(Body, [num |-> 0, Xi_pow |-> Xi], 1, Len(S)).num

\* denom after the loop for i in 1..len(sigma)-1 (sigma ascending, 0-based i)
ForneyDenom(sigma, Xi) ==
    LET Body(denom, i) ==
            IF sigma[i + 1] # 0
            THEN Xor(denom, gf_mul(gf_mul(i % 255, sigma[i + 1]), gf_pow(Xi, i - 1)))
            ELSE denom
    IN  Loop(Body, 0, 1, Len(sigma) - 1)

\* find_error_magnitudes given the denominators of all positions: the first zero
\* denominator raises, else magnitude = gf.div(num, denom) at each position
Magnitudes(S, error_positions, denoms) ==
    IF \E k \in 1..Len(denoms) : denoms[k] = 0
    THEN [kind |-> ZeroDivisionError, msg |-> ErrForney]
    ELSE [kind  |-> "ok",
          value |-> List([k \in 1..Len(error_positions) |->
                            gf_div(ForneyNum(S, AlphaInv(error_positions[k])), denoms[k])])]

\* find_error_magnitudes once sigma is in ascending order
MagnitudesAsc(S, sigma, error_positions) ==
    Magnitudes(S, error_positions,
               List([k \in 1..Len(error_positions) |->
                       ForneyDenom(sigma, AlphaInv(error_positions[k]))]))

find_error_magnitudes(S, error_locator, error_positions, nmess) ==
    MagnitudesAsc(S, to_asc(error_locator), error_positions)

\* sigma after the loop over err_pos
LocatorFrom(err_pos) ==
    LET Body(sigma, k) == poly_mul(sigma, <<1, gf_exp(err_pos[k])>>)
    IN  Loop(Body, <<1>>, 1, Len(err_pos))

\* the last loop of rs_correct_errata: cw[pos] ^= mag, unless the magnitudes raised
ApplyMagnitudes(c, err_pos, mags) ==
    IF mags.kind # "ok" THEN mags
    ELSE [kind  |-> "ok",
          value |-> List([k \in 1..Len(c) |->
                            IF \E e \in 1..Len(err_pos) : err_pos[e] = k - 1
                            THEN Xor(c[k], mags.value[CHOOSE e \in 1..Len(err_pos) :
                                                         err_pos[e] = k - 1])
                            ELSE c[k]])]

rs_correct_errata(c, S, err_pos) ==
    IF Len(err_pos) = 0 THEN [kind |-> "ok", value |-> c]
    ELSE ApplyMagnitudes(c, err_pos,
             find_error_magnitudes(S, poly_trim(LocatorFrom(err_pos)), err_pos, Len(c)))

\* the check of rs_find_errors on the number of located positions
CheckLocated(locator, errs) ==
    IF Len(errs) # Len(locator) - 1 THEN ValueError(ErrLocate)
    ELSE [kind |-> "ok", value |-> errs]

\* rs_find_errors once the locator is known
FindWithLocator(locator, len) ==
    CheckLocated(locator, find_error_positions(locator, len))

rs_find_errors(S, n, len) ==
    IF SeqMax(S) = 0 THEN [kind |-> "ok", value |-> << >>]
    ELSE FindWithLocator(berlekamp_massey(S), len)

\* codeword[:-nsym]
MessagePart(c, n) == Slice(c, 0, SliceBound(Len(c), -n))

\* An outcome of rs_decode_msg is the exception raised or the returned message
\* (value) together with the word whose syndromes were computed last (checked).

\* rs_decode_msg returning the corrected word without recomputing its syndromes
DecodeCorrected_no_recheck(n, corrected) ==
    IF corrected.kind # "ok" THEN corrected
    ELSE [kind    |-> "ok",
          value   |-> MessagePart(corrected.value, n),
          checked |-> corrected.value]

\* rs_decode_msg from the second syndrome computation on
DecodeCorrected(n, corrected) ==
    IF corrected.kind # "ok" THEN corrected
    ELSE IF SeqMax(rs_calc_syndromes(corrected.value, n)) # 0 THEN ValueError(ErrCorrect)
    ELSE [kind    |-> "ok",
          value   |-> MessagePart(corrected.value, n),
          checked |-> corrected.value]

\* rs_decode_msg from rs_correct_errata on
DecodeLocated(c, n, S, err_pos) ==
    IF err_pos.kind # "ok" THEN err_pos
    ELSE DecodeCorrected(n, rs_correct_errata(c, S, err_pos.value))

\* rs_decode_msg from the test of the syndromes on
\* rs_decode_msg returning the message part of its input without looking at the syndromes
DecodeSyndromes_unverified(c, n, S) ==
    [kind |-> "ok", value |-> MessagePart(c, n), checked |-> c]

DecodeSyndromes(c, n, S) ==
    IF SeqMax(S) = 0
    THEN [kind |-> "ok", value |-> MessagePart(c, n), checked |-> c]
    ELSE DecodeLocated(c, n, S, rs_find_errors(S, n, Len(c)))

\* err_pos of rs_decode_msg: skipped when the call ends before rs_find_errors is called
ErrPosFor(c, n, S) ==
    IF SeqMax(S) = 0 THEN [kind |-> "skipped"] ELSE rs_find_errors(S, n, Len(c))

DecodeErrPos(c, n) ==
    IF validate_params(Len(c) - n, n) # "ok" THEN [kind |-> "skipped"]
    ELSE ErrPosFor(c, n, rs_calc_syndromes(c, n))

rs_decode_msg(c, n) ==
    IF validate_params(Len(c) - n, n) # "ok"
    THEN ValueError(validate_params(Len(c) - n, n))
    ELSE DecodeSyndromes(c, n, rs_calc_syndromes(c, n))

-----------------------------------------------------------------------------
(* Bounds and input sets                                                   *)

MaxK       == 2   \* longest message given to rs_encode_msg
MaxNsym    == 3   \* largest parity length in the codec sessions
MaxDecodeNsym == 4 \* largest parity length given directly to rs_decode_msg
MaxErrors  == 2   \* largest n_errors given to simulate_errors
MaxWordLen == 12  \* longest sparse word given directly to rs_decode_msg
MaxDense   == 3   \* longest arbitrary word given directly to rs_decode_msg
MaxDividend == 3  \* longest dividend given to poly_div
MaxDivisor  == 2  \* longest divisor given to poly_div

MsgSyms  == {0, 1, 2}
ErrVals  == {1, 2}
WordSyms == {0, 1, 2, 3}
PolySyms == {0, 1, 2}
DivSyms  == {0, 1, 3}

SeqsUpTo(S, lo, hi) == UNION {[1..n -> S] : n \in lo..hi}

Messages == SeqsUpTo(MsgSyms, 1, MaxK)

\* the copies of c that simulate_errors can return for n_errors <= MaxErrors
Corruptions(c) ==
    {List([k \in 1..Len(c) |-> IF (k - 1) \in P THEN Xor(c[k], v[k - 1]) ELSE c[k]]) :
        <<P, v>> \in UNION {{<<Q, f>> : f \in [Q -> ErrVals]} :
                        Q \in {R \in SUBSET (0..Len(c) - 1) : Cardinality(R) <= MaxErrors}}}

SparseWords == UNION {Corruptions(Zeros(n)) : n \in 1..MaxWordLen}

ReceivedWords == SparseWords \cup SeqsUpTo(WordSyms, 1, MaxDense)

ParamNsyms == {-1, 0, 1, 2, 254, 255, 256}
ParamLens  == {0, 1, 2, 253, 254, 255, 256, 257}
ParamFill  == {0, 7}

-----------------------------------------------------------------------------
(* Codec sessions: encode, simulate_errors, decode                         *)

Idle ==
    /\ x = None /\ y = None /\ prod = None /\ quot = None
    /\ dividend = None /\ divisor = None /\ qr = None

Init ==
    /\ InitTables
    /\ pc = "start"
    /\ msg \in Messages
    /\ nsym \in 1..MaxNsym
    /\ cw = None /\ word = None /\ positions = {} /\ result = None /\ located = None
    /\ arith = FALSE
    /\ Idle

Encode ==
    /\ pc = "start"
    /\ cw' = rs_encode_msg(msg, nsym)
    /\ arith' = (validate_params(Len(msg), nsym) = "ok")
    /\ pc' = "encoded"
    /\ UNCHANGED <<tableVars, nsym, msg, word, positions, result, located, fieldVars, polyVars>>

\* simulate_errors(cw, n_errors): n_errors distinct positions, each XORed with a
\* value of 1..255 (here of ErrVals)
Corrupt ==
    /\ pc = "encoded"
    /\ cw.kind = "ok"
    /\ \E P \in SUBSET (0..Len(cw.value) - 1) :
         /\ Cardinality(P) <= MaxErrors
         /\ \E v \in [P -> ErrVals] :
              /\ word' = List([k \in 1..Len(cw.value) |->
                                 IF (k - 1) \in P THEN Xor(cw.value[k], v[k - 1])
                                 ELSE cw.value[k]])
              /\ positions' = P
    /\ pc' = "corrupted"
    /\ UNCHANGED <<tableVars, nsym, msg, cw, result, located, arith, fieldVars, polyVars>>

Decode ==
    /\ pc \in {"corrupted", "received"}
    /\ result' = rs_decode_msg(word, nsym)
    /\ located' = DecodeErrPos(word, nsym)
    /\ arith' = (arith \/ validate_params(Len(word) - nsym, nsym) = "ok")
    /\ pc' = "decoded"
    /\ UNCHANGED <<tableVars, nsym, msg, cw, word, positions, fieldVars, polyVars>>

Next == Encode \/ Corrupt \/ Decode

Spec == Init /\ [][Next]_vars

-----------------------------------------------------------------------------
(* rs_decode_msg on received words                                         *)

InitDecode ==
    /\ InitTables
    /\ pc = "received"
    /\ word \in ReceivedWords
    /\ nsym \in 1..MaxDecodeNsym
    /\ msg = None /\ cw = None /\ positions = {} /\ result = None /\ located = None
    /\ arith = FALSE
    /\ Idle

NextDecode == Decode

SpecDecode == InitDecode /\ [][NextDecode]_vars

-----------------------------------------------------------------------------
(* rs_encode_msg and rs_decode_msg on arbitrary parameters                 *)

InitParams ==
    /\ InitTables
    /\ nsym \in ParamNsyms
    /\ \E len \in ParamLens, c \in ParamFill :
         \/ pc = "start" /\ msg = List([k \in 1..len |-> c]) /\ word = None
         \/ pc = "received" /\ word = List([k \in 1..len |-> c]) /\ msg = None
    /\ cw = None /\ positions = {} /\ result = None /\ located = None
    /\ arith = FALSE
    /\ Idle

NextParams == Encode \/ Decode

SpecParams == InitParams /\ [][NextParams]_vars

-----------------------------------------------------------------------------
(* gf.mul and gf.div                                                       *)

InitGF ==
    /\ InitTables
    /\ pc = "gf"
    /\ x \in 0..255 /\ y \in 0..255
    /\ prod = None /\ quot = None
    /\ nsym = None /\ msg = None /\ cw = None /\ word = None
    /\ positions = {} /\ result = None /\ located = None /\ arith = FALSE
    /\ dividend = None /\ divisor = None /\ qr = None

Mul ==
    /\ pc = "gf"
    /\ prod' = gf_mul(x, y)
    /\ pc' = "mul"
    /\ UNCHANGED <<tableVars, x, y, quot, codecVars, polyVars>>

Div ==
    /\ pc = "mul"
    /\ quot' = gf_div(prod, y)
    /\ pc' = "div"
    /\ UNCHANGED <<tableVars, x, y, prod, codecVars, polyVars>>

NextGF == Mul \/ Div

SpecGF == InitGF /\ [][NextGF]_vars

-----------------------------------------------------------------------------
(* poly_div                                                                *)

InitPoly ==
    /\ InitTables
    /\ pc = "poly"
    /\ dividend \in SeqsUpTo(PolySyms, 1, MaxDividend)
    /\ divisor \in SeqsUpTo(DivSyms, 1, MaxDivisor)
    /\ qr = None
    /\ nsym = None /\ msg = None /\ cw = None /\ word = None
    /\ positions = {} /\ result = None /\ located = None /\ arith = FALSE
    /\ x = None /\ y = None /\ prod = None /\ quot = None

Divide ==
    /\ pc = "poly"
    /\ qr' = poly_div(dividend, divisor)
    /\ pc' = "divided"
    /\ UNCHANGED <<tableVars, dividend, divisor, codecVars, fieldVars>>

NextPoly == Divide

SpecPoly == InitPoly /\ [][NextPoly]_vars

-----------------------------------------------------------------------------
(* Properties                                                              *)

\* c(v) for a highest-degree-first list c, term by term: the sum of c[k] * v^(degree)
EvalDirect(c, v) ==
    LET Body(acc, k) == Xor(acc, gf_mul(c[k], gf_pow(v, Len(c) - k)))
    IN  Loop(Body, 0, 1, Len(c))

\* c vanishes at alpha^1 .. alpha^n: all n syndromes of c are zero
IsCodeword(c, n) == \A j \in 1..n : EvalDirect(c, gf_exp(j)) = 0

Capacity == nsym \div 2

FullLength == cw.kind = "ok" /\ Len(cw.value) = Len(msg) + nsym

\* C1: with no position corrupted, decoding the encoded message returns exactly
\* the message.
C1_RoundTripNoErrors ==
    (pc = "decoded" /\ positions = {}) => (result.kind = "ok" /\ result.value = msg)

\* the all-zero message of length 2 with nsym = 2 is encoded to 3 symbols and decoded to 1
C1_ShortRoundTrip ==
    /\ pc = "decoded" /\ positions = {} /\ msg = <<0, 0>> /\ nsym = 2
    /\ word = <<0, 0, 0>>
    /\ result.kind = "ok" /\ result.value = <<0>>

\* C5: rs_encode_msg returns the message followed by exactly nsym parity symbols,
\* k + nsym symbols in all.
C5_CodewordLength ==
    pc = "encoded" =>
        /\ cw.kind = "ok"
        /\ Len(cw.value) = Len(msg) + nsym
        /\ SubSeq(cw.value, 1, Len(msg)) = msg

\* the remainder of the all-zero message is trimmed to one symbol
C5_TrimmedParity ==
    pc = "encoded" /\ msg = <<0>> /\ nsym = 3 /\ cw = [kind |-> "ok", value |-> <<0, 0>>]

\* C7: for a, b in 1..255, gf.div(gf.mul(a, b), b) = a.
C7_DivInvertsMul ==
    (pc = "div" /\ x \in 1..255 /\ y \in 1..255) => quot = x

C7_Divided ==
    pc = "div" /\ x = 123 /\ y = 80 /\ prod # 123 /\ quot = 123

\* C8: for a non-zero divisor, poly_div returns (quotient, remainder) with
\* quotient * divisor + remainder = the trimmed dividend, and the remainder is [0]
\* or shorter than the trimmed divisor.
C8_DivisionIdentity ==
    (pc = "divided" /\ qr.kind = "ok") =>
        /\ poly_add(poly_mul(qr.quotient, poly_trim(divisor)), qr.remainder) = poly_trim(dividend)
        /\ \/ qr.remainder = <<0>>
           \/ Len(qr.remainder) < Len(poly_trim(divisor))

\* x^2 + 2x + 1 divided by x + 1: the quotient comes back as [0]
C8_QuotientWiped ==
    /\ pc = "divided" /\ dividend = <<1, 2, 1>> /\ divisor = <<1, 1>>
    /\ qr.kind = "ok" /\ qr.quotient = <<0>>

InvalidParams(len) == ~(nsym \in 1..254) \/ len > 255

\* C6: when nsym is outside 1..254 or the total length exceeds 255, rs_encode_msg
\* and rs_decode_msg end in a ValueError of validate_params, no field or
\* polynomial operation has been performed, and the caller's list is unchanged.
C6_ParameterRejection ==
    [][/\ (pc = "start" /\ InvalidParams(Len(msg) + nsym)) =>
            /\ cw'.kind = "ValueError" /\ cw'.msg \in {ErrNsym, ErrLength}
            /\ ~arith' /\ msg' = msg
       /\ (pc = "received" /\ InvalidParams(Len(word))) =>
            /\ result'.kind = "ValueError" /\ result'.msg \in {ErrNsym, ErrLength}
            /\ ~arith' /\ word' = word]_vars

\* a 256-symbol word is rejected by rs_decode_msg although nsym is valid
C6_Rejected ==
    pc = "decoded" /\ nsym = 2 /\ Len(word) = 256 /\ result = ValueError(ErrLength) /\ ~arith

Uncorrectable == {ValueError(ErrLocate), ValueError(ErrCorrect)}

\* the list indices at which two lists of the same length differ
Changed(c, d) == {k - 1 : k \in {j \in 1..Len(c) : c[j] # d[j]}}

\* the members of a list of indices
Members(p) == {p[k] : k \in 1..Len(p)}

\* C4: a value returned by rs_decode_msg is the first n - nsym symbols of a word of
\* length n, the input or the input changed at the located positions only, whose
\* nsym syndromes are all zero; when the word after correction has a non-zero
\* syndrome the call ends in the uncorrectable-error failure.
C4_ReturnsVerified ==
    pc = "decoded" =>
        /\ result.kind = "ok" =>
             /\ Len(result.checked) = Len(word)
             /\ IsCodeword(result.checked, nsym)
             /\ result.value = SubSeq(result.checked, 1, Len(word) - nsym)
             /\ \/ result.checked = word
                \/ located.kind = "ok" /\ Changed(result.checked, word) \subseteq Members(located.value)
        /\ (located.kind = "ok" /\ result.kind # ZeroDivisionError
              /\ ~IsCodeword(rs_correct_errata(word, rs_calc_syndromes(word, nsym), located.value).value, nsym))
             => result = ValueError(ErrCorrect)

\* a symbol corrected in the middle of a 5-symbol word with nsym = 3
C4_CorrectedAndVerified ==
    /\ pc = "decoded" /\ nsym = 3 /\ word = <<0, 0, 1, 0, 0>>
    /\ result = [kind |-> "ok", value |-> <<0, 0>>, checked |-> <<0, 0, 0, 0, 0>>]

C2_CorrectionWithinCapacity ==
    (pc = "decoded" /\ FullLength /\ Cardinality(positions) \in 1..Capacity) =>
        (result.kind = "ok" /\ result.value = msg)

\* one changed parity symbol with nsym = 2 ends in "Could not correct message"
C2_SingleErrorNotCorrected ==
    /\ pc = "decoded" /\ FullLength /\ nsym = 2 /\ Cardinality(positions) = 1
    /\ result = ValueError(ErrCorrect)

Ascending(p) == \A k \in 1..(Len(p) - 1) : p[k] < p[k + 1]

\* C9: for a word with all-zero syndromes changed at a set P of t list indices,
\* 1 <= t <= floor(nsym/2), rs_find_errors returns exactly the indices of P in
\* ascending order.  Stated for codewords of full length.
C9_LocatedAreCorrupted ==
    (pc = "decoded" /\ FullLength /\ IsCodeword(cw.value, nsym)
        /\ Cardinality(positions) \in 1..Capacity) =>
        /\ located.kind = "ok"
        /\ Members(located.value) = positions
        /\ Len(located.value) = Cardinality(positions)
        /\ Ascending(located.value)

\* the index located for a changed symbol is counted from the other end of the list
C9_MirroredIndex ==
    /\ pc = "decoded" /\ FullLength /\ IsCodeword(cw.value, nsym)
    /\ Len(word) = 4 /\ positions = {0}
    /\ located = [kind |-> "ok", value |-> <<3>>]

\* C10: for a word of at most 255 symbols and a valid nsym, rs_decode_msg ends in
\* a returned message or in the uncorrectable-error failure, never in a division
\* by zero.  Stated for words with at most floor(nsym/2) non-zero symbols, which
\* are the all-zero codeword with that many changed symbols.
C10_DecodeOutcomes ==
    (pc = "decoded" /\ Cardinality(Changed(word, Zeros(Len(word)))) <= Capacity) =>
        \/ result.kind = "ok"
        \/ result \in Uncorrectable

\* two changed symbols, nsym = 4: the Forney denominator check fails
C10_ForneyDenominatorZero ==
    /\ pc = "decoded" /\ nsym = 4 /\ Cardinality(Changed(word, Zeros(Len(word)))) = 2
    /\ result = [kind |-> ZeroDivisionError, msg |-> ErrForney]

====
